---- MODULE Spec2Model ----
(***************************************************************************)
(* Gesture-Air-Drop: the file transfer core, the chunk cipher and the     *)
(* discovery of devices.                                                   *)
(*                                                                         *)
(* One FileSender (src/src/FileSender.py) pushes one file over a TCP       *)
(* connection to one FileReceiver (src/src/FileReceiver.py); chunks are    *)
(* optionally sealed by SecurityHandler (src/src/SecurityHandler.py).      *)
(* The TCP connection is an ordered byte stream, `wire', that recv() may   *)
(* hand out in fragments of any size.                                      *)
(***************************************************************************)
EXTENDS Integers, Sequences, FiniteSets, TLC

VARIABLES src, port_in_use, sender, receiver, wire, tampered, sh,
          now, dd, listener, broadcaster, owner, cli

vars == <<src, port_in_use, sender, receiver, wire, tampered, sh,
          now, dd, listener, broadcaster, owner, cli>>

\* the state of a transfer, and the state outside of it
transferVars == <<src, port_in_use, sender, receiver, wire, tampered>>
discoveryVars == <<now, dd, listener, broadcaster, owner>>
outsideTransfer == <<sh, discoveryVars, cli>>
outsideDiscovery == <<transferVars, sh, cli>>
outsideCli == <<transferVars, sh, discoveryVars>>

(***************************************************************************)
(* Bounds of the model.                                                    *)
(***************************************************************************)
\* longest source file, in bytes
MaxFileLen == 3
\* longest file base name, in characters
MaxNameLen == 1
\* FileSender(chunk_size=...): plaintext bytes per chunk
ChunkSize == 2

(***************************************************************************)
(* Program constants.                                                      *)
(***************************************************************************)
\* conn.recv(4096) in the unencrypted body loop
RECV_BUFSIZE == 4096
\* os.urandom(12): the GCM nonce
IV_LEN == 12
\* the GCM authentication tag
TAG_LEN == 16
\* AES-256 key length
KEY_LEN == 32

\* values a file byte may take
ByteVals == {65, 66}
\* characters of file names: 'a' (one UTF-8 byte) and e-acute (two UTF-8 bytes)
Chars == {97, 233}
\* '/'
SEP == 47
\* the directory the source files live in: "d/"
SrcDir == <<100, SEP>>

Min(a, b) == IF a < b THEN a ELSE b

SeqsUpTo(S, lo, hi) == UNION {[1..n -> S] : n \in lo..hi}

RECURSIVE SumSeq(_)
SumSeq(s) == IF s = <<>> THEN 0 ELSE Head(s) + SumSeq(Tail(s))

Take(s, n) == SubSeq(s, 1, Min(n, Len(s)))
Drop(s, n) == SubSeq(s, Min(n, Len(s)) + 1, Len(s))

(***************************************************************************)
(* struct.pack / struct.unpack, network byte order.                        *)
(***************************************************************************)
RECURSIVE PackBE(_, _)
\* struct.pack('!I', n) for w = 4, struct.pack('!Q', n) for w = 8
PackBE(n, w) ==
    IF w = 0 THEN <<>> ELSE PackBE(n \div 256, w - 1) \o <<n % 256>>

\* every decoded length of 2^30 or more is represented by 2^30, which is
\* more than any stream of the model carries
HUGE == 1073741824

RECURSIVE UnpackBE(_)
\* struct.unpack('!I' / '!Q', bytes)[0]
UnpackBE(bs) ==
    IF bs = <<>> THEN 0
    ELSE LET hi == UnpackBE(SubSeq(bs, 1, Len(bs) - 1))
         IN  IF hi >= HUGE \div 256 THEN HUGE ELSE 256 * hi + bs[Len(bs)]

\* the 'Ns' struct field: the value is truncated to N bytes, or padded with
\* zero bytes up to N
PackS(bs, n) == [i \in 1..n |-> IF i <= Len(bs) THEN bs[i] ELSE 0]

(***************************************************************************)
(* str.encode('utf-8') / bytes.decode()                                    *)
(***************************************************************************)
EncodeChar(c) ==
    IF c < 128 THEN <<c>>
    ELSE IF c < 2048 THEN <<192 + (c \div 64), 128 + (c % 64)>>
    ELSE IF c < 65536 THEN
        <<224 + (c \div 4096), 128 + ((c \div 64) % 64), 128 + (c % 64)>>
    ELSE <<240 + (c \div 262144), 128 + ((c \div 4096) % 64),
           128 + ((c \div 64) % 64), 128 + (c % 64)>>

RECURSIVE EncodeUTF8(_)
EncodeUTF8(cs) ==
    IF cs = <<>> THEN <<>> ELSE EncodeChar(Head(cs)) \o EncodeUTF8(Tail(cs))

IsCont(b) == b >= 128 /\ b <= 191

\* number of bytes of the well-formed UTF-8 sequence at the head of bs,
\* 0 when there is none
LeadLen(bs) ==
    LET b == bs[1]
        c(i) == Len(bs) >= i /\ IsCont(bs[i])
    IN  IF b < 128 THEN 1
        ELSE IF b >= 194 /\ b <= 223 THEN (IF c(2) THEN 2 ELSE 0)
        ELSE IF b = 224 THEN
            (IF c(2) /\ bs[2] >= 160 /\ c(3) THEN 3 ELSE 0)
        ELSE IF b = 237 THEN
            (IF c(2) /\ bs[2] <= 159 /\ c(3) THEN 3 ELSE 0)
        ELSE IF b >= 225 /\ b <= 239 THEN (IF c(2) /\ c(3) THEN 3 ELSE 0)
        ELSE IF b = 240 THEN
            (IF c(2) /\ bs[2] >= 144 /\ c(3) /\ c(4) THEN 4 ELSE 0)
        ELSE IF b = 244 THEN
            (IF c(2) /\ bs[2] <= 143 /\ c(3) /\ c(4) THEN 4 ELSE 0)
        ELSE IF b >= 241 /\ b <= 243 THEN
            (IF c(2) /\ c(3) /\ c(4) THEN 4 ELSE 0)
        ELSE 0

DecodeChar(bs, n) ==
    IF n = 1 THEN bs[1]
    ELSE IF n = 2 THEN (bs[1] - 192) * 64 + (bs[2] - 128)
    ELSE IF n = 3 THEN
        (bs[1] - 224) * 4096 + (bs[2] - 128) * 64 + (bs[3] - 128)
    ELSE (bs[1] - 240) * 262144 + (bs[2] - 128) * 4096
         + (bs[3] - 128) * 64 + (bs[4] - 128)

RECURSIVE ValidUTF8(_)
\* bytes.decode() succeeds
ValidUTF8(bs) ==
    IF bs = <<>> THEN TRUE
    ELSE LET n == LeadLen(bs) IN n > 0 /\ ValidUTF8(Drop(bs, n))

RECURSIVE DecodeUTF8(_)
\* bytes.decode() of a valid byte string
DecodeUTF8(bs) ==
    IF bs = <<>> THEN <<>>
    ELSE LET n == LeadLen(bs)
         IN  <<DecodeChar(bs, n)>> \o DecodeUTF8(Drop(bs, n))

RECURSIVE Basename(_)
\* os.path.basename: what follows the last separator
Basename(p) ==
    IF \E i \in 1..Len(p) : p[i] = SEP THEN Basename(Tail(p)) ELSE p

(***************************************************************************)
(* SecurityHandler: AES-256-GCM, abstracted as a keyed stream cipher with  *)
(* a keyed digest over (iv, ciphertext) as the authentication tag.         *)
(***************************************************************************)
\* security_handler is None
NoKey == <<>>
Key1 == [i \in 1..KEY_LEN |-> 17]
Key2 == [i \in 1..KEY_LEN |-> 34]
\* the key the sending side was given, and the keys the receiving side may
\* have been given: the same one or another one
SenderKeys == {Key1}
Keys == {Key1, Key2}

\* the nonces os.urandom(12) may return
IVs == {[i \in 1..IV_LEN |-> 1], [i \in 1..IV_LEN |-> 2]}

KeyStream(key, iv, i) == (SumSeq(key) * 7 + SumSeq(iv) * 3 + i * 5 + 1) % 256

GcmTag(key, iv, ciphertext) ==
    [j \in 1..TAG_LEN |->
        (SumSeq(key) + SumSeq(iv) + SumSeq(ciphertext)
         + 11 * Len(ciphertext) + 13 * Len(iv) + j) % 256]

\* encrypt_chunk as it would be if it returned the first 12 bytes of the tag
EncryptChunk_ShortTag(key, iv, plaintext) ==
    LET ciphertext == [i \in 1..Len(plaintext) |->
                          (plaintext[i] + KeyStream(key, iv, i)) % 256]
    IN  [iv |-> iv, ciphertext |-> ciphertext,
         tag |-> SubSeq(GcmTag(key, iv, ciphertext), 1, 12)]

\* SecurityHandler.encrypt_chunk, with the nonce that os.urandom returned
EncryptChunk(key, iv, plaintext) ==
    LET ciphertext == [i \in 1..Len(plaintext) |->
                          (plaintext[i] + KeyStream(key, iv, i)) % 256]
    IN  [iv |-> iv, ciphertext |-> ciphertext,
         tag |-> GcmTag(key, iv, ciphertext)]

\* decrypt_chunk as it would be if finalize() did not verify the tag
DecryptChunk_Unverified(key, iv, ciphertext, tag) ==
    IF Len(iv) < 8 \/ Len(iv) > 128 \/ Len(tag) # TAG_LEN
    THEN [error |-> "ValueError", plaintext |-> <<>>]
    ELSE [error |-> "none",
          plaintext |-> [i \in 1..Len(ciphertext) |->
              (ciphertext[i] + 256 - KeyStream(key, iv, i)) % 256]]

\* SecurityHandler.decrypt_chunk: error is the exception raised, or "none"
DecryptChunk(key, iv, ciphertext, tag) ==
    IF Len(iv) < 8 \/ Len(iv) > 128 \/ Len(tag) # TAG_LEN
    THEN [error |-> "ValueError", plaintext |-> <<>>]
    ELSE IF tag # GcmTag(key, iv, ciphertext)
    THEN [error |-> "InvalidTag", plaintext |-> <<>>]
    ELSE [error |-> "none",
          plaintext |-> [i \in 1..Len(ciphertext) |->
              (ciphertext[i] + 256 - KeyStream(key, iv, i)) % 256]]

\* the frame send_file builds inline
InlineFrame(c) ==
    PackBE(Len(c.iv), 4) \o c.iv
    \o PackBE(Len(c.tag), 4) \o c.tag
    \o PackBE(Len(c.ciphertext), 4) \o c.ciphertext

\* pack_encrypted_chunk as it would be if it wrote the fields in the order
\* of its parameters
PackEncryptedChunk_ParameterOrder(iv, ciphertext, tag) ==
    PackBE(Len(iv), 4) \o iv
    \o PackBE(Len(ciphertext), 4) \o ciphertext
    \o PackBE(Len(tag), 4) \o tag

\* SecurityHandler.pack_encrypted_chunk
PackEncryptedChunk(iv, ciphertext, tag) ==
    PackBE(Len(iv), 4) \o iv
    \o PackBE(Len(tag), 4) \o tag
    \o PackBE(Len(ciphertext), 4) \o ciphertext

\* struct.unpack_from('!I', data, ptr)[0]; -1 stands for the struct.error that
\* is raised when fewer than 4 bytes are left at ptr
UnpackFrom(data, ptr) ==
    IF Len(data) - ptr < 4 THEN -1 ELSE UnpackBE(SubSeq(data, ptr + 1, ptr + 4))

\* the slice data[lo:hi] of a byte string
Slice(data, lo, hi) == SubSeq(data, Min(lo, Len(data)) + 1, Min(hi, Len(data)))

\* SecurityHandler.unpack_encrypted_chunk: error is the exception raised, or
\* "none"
UnpackEncryptedChunk(data) ==
    LET failed == [error |-> "struct.error", iv |-> <<>>, ciphertext |-> <<>>,
                   tag |-> <<>>]
        iv_len == UnpackFrom(data, 0)
        iv == Slice(data, 4, 4 + iv_len)
        ptr1 == 4 + iv_len
        tag_len == UnpackFrom(data, ptr1)
        tag == Slice(data, ptr1 + 4, ptr1 + 4 + tag_len)
        ptr2 == ptr1 + 4 + tag_len
        data_len == UnpackFrom(data, ptr2)
        ciphertext == Slice(data, ptr2 + 4, ptr2 + 4 + data_len)
    IN  IF iv_len = -1 THEN failed
        ELSE IF tag_len = -1 THEN failed
        ELSE IF data_len = -1 THEN failed
        ELSE [error |-> "none", iv |-> iv, ciphertext |-> ciphertext,
              tag |-> tag]

(***************************************************************************)
(* One SecurityHandler and the calls made on it.  given and supplied are   *)
(* the argument of the constructor (given is FALSE for None); frame is the *)
(* triple (iv, ciphertext, tag) in hand, made by encrypt_chunk from        *)
(* plaintext when sealed is TRUE; packed, unpacked and decrypted are the   *)
(* results of the calls that followed.                                     *)
(***************************************************************************)
MaxFieldLen == 1

\* the keys a caller may pass to the constructor, of the right length and of
\* others
SuppliedKeys ==
    {[i \in 1..n |-> 17] : n \in {0, 16, KEY_LEN, 33}} \cup {Key2}

\* byte strings of few bytes, and one whose length takes two bytes to write
LongField == [i \in 1..300 |-> 3]
Fields == SeqsUpTo({1, 2}, 0, MaxFieldLen) \cup {LongField}
Plaintexts == SeqsUpTo(ByteVals, 0, MaxFieldLen + 1)

NoFrame == [error |-> "none", iv |-> <<>>, ciphertext |-> <<>>, tag |-> <<>>]

HandlerInit ==
    [pc |-> "none", given |-> FALSE, supplied |-> <<>>, key |-> NoKey,
     error |-> "none", sealed |-> FALSE, plaintext |-> <<>>, frame |-> NoFrame,
     packed |-> <<>>, unpacked |-> NoFrame,
     decrypted |-> [error |-> "none", plaintext |-> <<>>]]

\* SecurityHandler.__init__: self.key = key or os.urandom(32), where random
\* is what os.urandom returns
NewHandler(given, supplied, random) ==
    LET key == IF given /\ supplied # <<>> THEN supplied ELSE random
    IN  [HandlerInit EXCEPT
            !.pc = IF Len(key) # KEY_LEN THEN "raised" ELSE "ready",
            !.error = IF Len(key) # KEY_LEN THEN "ValueError" ELSE "none",
            !.given = given, !.supplied = supplied, !.key = key]

\* SecurityHandler(key), and SecurityHandler() with no key
Construct ==
    /\ sh.pc = "none"
    /\ \E random \in Keys :
         \/ \E supplied \in SuppliedKeys :
               sh' = NewHandler(TRUE, supplied, random)
         \/ sh' = NewHandler(FALSE, <<>>, random)
    /\ UNCHANGED <<transferVars, discoveryVars, cli>>

\* the calls made on a handler do not change it, so that one run of calls
\* on each handler shows them all
Usable == sh.pc = "ready"

\* the handler with a new triple in hand
WithFrame(h, sealed, plaintext, frame) ==
    [h EXCEPT !.pc = "framed", !.sealed = sealed, !.plaintext = plaintext,
              !.frame = frame, !.packed = <<>>, !.unpacked = NoFrame,
              !.decrypted = [error |-> "none", plaintext |-> <<>>]]

\* iv, ciphertext, tag = handler.encrypt_chunk(plaintext)
Encrypt ==
    /\ Usable
    /\ \E plaintext \in Plaintexts, iv \in IVs :
         LET c == EncryptChunk(sh.key, iv, plaintext)
         IN  sh' = WithFrame(sh, TRUE, plaintext,
                             [NoFrame EXCEPT !.iv = c.iv,
                                             !.ciphertext = c.ciphertext,
                                             !.tag = c.tag])
    /\ UNCHANGED <<transferVars, discoveryVars, cli>>

\* a triple of any byte strings, as a caller of pack_encrypted_chunk or a
\* peer may make it
TakeFrame ==
    /\ Usable
    /\ \E iv \in Fields, ciphertext \in Fields, tag \in Fields :
         sh' = WithFrame(sh, FALSE, <<>>,
                         [NoFrame EXCEPT !.iv = iv, !.ciphertext = ciphertext,
                                         !.tag = tag])
    /\ UNCHANGED <<transferVars, discoveryVars, cli>>

\* packed = handler.pack_encrypted_chunk(iv, ciphertext, tag)
Pack ==
    /\ sh.pc = "framed"
    /\ sh' = [sh EXCEPT !.pc = "packed",
                        !.packed = PackEncryptedChunk(
                            sh.frame.iv, sh.frame.ciphertext, sh.frame.tag)]
    /\ UNCHANGED <<transferVars, discoveryVars, cli>>

\* the packed bytes lose their end on the way: the first k of them are left
Truncate ==
    /\ sh.pc = "packed"
    /\ \E k \in 0..(Len(sh.packed) - 1) :
         sh' = [sh EXCEPT !.pc = "cut", !.packed = Take(sh.packed, k)]
    /\ UNCHANGED <<transferVars, discoveryVars, cli>>

\* handler.unpack_encrypted_chunk(packed), of the packed bytes or of what is
\* left of them
Unpack ==
    /\ sh.pc \in {"packed", "cut"}
    /\ sh' = [sh EXCEPT !.pc = IF sh.pc = "cut" THEN "unpacked_cut"
                                ELSE "unpacked",
                        !.unpacked = UnpackEncryptedChunk(sh.packed)]
    /\ UNCHANGED <<transferVars, discoveryVars, cli>>

\* handler.decrypt_chunk(iv, ciphertext, tag), of the triple in hand or of
\* the one that unpack_encrypted_chunk returned
Decrypt ==
    /\ sh.pc \in {"framed", "unpacked"}
    /\ LET f == IF sh.pc = "framed" THEN sh.frame ELSE sh.unpacked
       IN  sh' = [sh EXCEPT !.pc = "decrypted",
                           !.decrypted = DecryptChunk(sh.key, f.iv,
                                                      f.ciphertext, f.tag)]
    /\ UNCHANGED <<transferVars, discoveryVars, cli>>

(***************************************************************************)
(* DeviceDiscovery (src/src/DeviceDiscovery.py): a broadcaster thread      *)
(* announces this host, a listener thread records the hosts it hears, and  *)
(* the owner of the object starts and stops them and asks for the hosts.   *)
(* dd is the object: running, devices (for each address the pair (name,    *)
(* last_seen), or <<>> when the table has no such key) and the state of    *)
(* discovery_socket.  now is the clock.                                    *)
(***************************************************************************)
PRUNE_TIMEOUT == 30

\* the instants the clock shows
Instants == {0, 29, 30, 31}

\* the address of this host on the network, the address _get_local_ip falls
\* back to, and the addresses of two other hosts
LocalAddr == "192.168.1.5"
Loopback == "127.0.0.1"
PeerAddrs == {"192.168.1.7", "192.168.1.8"}
Addrs == {LocalAddr} \cup PeerAddrs

\* socket.gethostname() of this host and of the other hosts
HostName(addr) == IF addr = LocalAddr THEN "local" ELSE "peer"

\* what a datagram may carry: a beacon, a record without a name, a pickled
\* value that is no record, bytes that are no pickle, a pickle cut short, and
\* no bytes at all
PayloadKinds ==
    {"beacon", "noname", "nonrecord", "garbage", "truncated", "empty"}

\* pickle.loads(data): the exception raised, or "none"
PickleLoads(kind) ==
    CASE kind \in {"garbage", "truncated"} -> "UnpicklingError"
      [] kind = "empty" -> "EOFError"
      [] OTHER -> "none"

\* device_info['name']: the exception raised, or "none"
NameOf(kind) ==
    CASE kind = "noname" -> "KeyError"
      [] kind = "nonrecord" -> "TypeError"
      [] OTHER -> "none"

\* _get_local_ip, where ok says whether the lookup of the outbound address
\* went through
GetLocalIp(ok) == IF ok THEN LocalAddr ELSE Loopback

NoDevices == [ip \in Addrs |-> <<>>]
Known(devices) == {ip \in Addrs : devices[ip] # <<>>}

DiscoveryIdle ==
    /\ now = 0
    /\ dd = [running |-> FALSE, started |-> FALSE, stopped |-> FALSE,
             devices |-> NoDevices, discovery_socket |-> "open"]
    /\ listener = [pc |-> "idle", error |-> "none", raised_in |-> "none"]
    /\ broadcaster = [pc |-> "idle", error |-> "none", raised_in |-> "none",
                      sent |-> FALSE]
    /\ owner = [pc |-> "idle", current_time |-> 0, expired |-> {},
                fresh |-> {}, stale |-> {}, result |-> {}]

\* time passes
Tick ==
    /\ \E t \in Instants : t > now /\ now' = t
    /\ UNCHANGED <<dd, listener, broadcaster, owner, outsideDiscovery>>

\* start_discovery
StartDiscovery ==
    /\ ~dd.started
    /\ dd' = [dd EXCEPT !.running = TRUE, !.started = TRUE]
    /\ listener' = [listener EXCEPT !.pc = "bind"]
    /\ broadcaster' = [broadcaster EXCEPT !.pc = "loop"]
    /\ UNCHANGED <<now, owner, outsideDiscovery>>

\* stop_discovery: it closes discovery_socket, the socket of the
\* broadcaster; the listener has a socket of its own
StopDiscovery ==
    /\ dd.started
    /\ ~dd.stopped
    /\ dd' = [dd EXCEPT !.running = FALSE, !.stopped = TRUE,
                        !.discovery_socket = "closed"]
    /\ UNCHANGED <<now, listener, broadcaster, owner, outsideDiscovery>>

\* a thread leaves its loop: on an exception (where says what raised it), or
\* because running is False
Exited(thread, exc, where) ==
    [thread EXCEPT !.pc = "exited", !.error = exc, !.raised_in = where]

\* _broadcast_presence: while self.running
BroadcastLoop ==
    /\ broadcaster.pc = "loop"
    /\ broadcaster' = IF dd.running THEN [broadcaster EXCEPT !.pc = "send"]
                      ELSE Exited(broadcaster, "none", "none")
    /\ UNCHANGED <<now, dd, listener, owner, outsideDiscovery>>

\* _broadcast_presence: sendto; on a closed socket it raises OSError
BroadcastSend ==
    /\ broadcaster.pc = "send"
    /\ broadcaster' = IF dd.discovery_socket = "closed"
                      THEN Exited(broadcaster, "OSError", "socket")
                      ELSE [broadcaster EXCEPT !.pc = "sleep", !.sent = TRUE]
    /\ UNCHANGED <<now, dd, listener, owner, outsideDiscovery>>

\* _broadcast_presence: sendto raises because the network is down; except
\* Exception prints and breaks
BroadcastFault ==
    /\ broadcaster.pc = "send"
    /\ dd.discovery_socket = "open"
    /\ broadcaster' = Exited(broadcaster, "OSError", "socket")
    /\ UNCHANGED <<now, dd, listener, owner, outsideDiscovery>>

\* _broadcast_presence: time.sleep(interval) returns
BroadcastWake ==
    /\ broadcaster.pc = "sleep"
    /\ broadcaster' = [broadcaster EXCEPT !.pc = "loop"]
    /\ UNCHANGED <<now, dd, listener, owner, outsideDiscovery>>

\* _listen_for_devices: listener.bind, outside of the try statement: when it
\* raises, the exception leaves the thread
ListenerBind ==
    /\ listener.pc = "bind"
    /\ \E ok \in BOOLEAN :
         listener' = IF ok THEN [listener EXCEPT !.pc = "loop"]
                     ELSE Exited(listener, "OSError", "bind")
    /\ UNCHANGED <<now, dd, broadcaster, owner, outsideDiscovery>>

\* _listen_for_devices: while self.running
ListenerLoop ==
    /\ listener.pc = "loop"
    /\ listener' = IF dd.running THEN [listener EXCEPT !.pc = "recvfrom"]
                   ELSE Exited(listener, "none", "none")
    /\ UNCHANGED <<now, dd, broadcaster, owner, outsideDiscovery>>

\* the table after self.devices[ip] = (name, time.time())
Upsert(devices, ip, name, time) == [devices EXCEPT ![ip] = <<name, time>>]

\* the exceptions that the listener's first except clause lets pass
Swallowed == {"UnpicklingError", "KeyError"}

\* _listen_for_devices: the body of the try statement for a datagram of the
\* given kind from ip: the exception it raises, or "none", and the table
\* after it
HandleDatagram(devices, ip, kind, local_ip, time) ==
    IF PickleLoads(kind) # "none"
    THEN [error |-> PickleLoads(kind), devices |-> devices]
    ELSE IF ip = local_ip
    THEN [error |-> "none", devices |-> devices]
    ELSE IF NameOf(kind) # "none"
    THEN [error |-> NameOf(kind), devices |-> devices]
    ELSE [error |-> "none",
          devices |-> Upsert(devices, ip, HostName(ip), time)]

\* _listen_for_devices: recvfrom returns a datagram.  This host's address
\* sends what the broadcaster sent; the other hosts may send anything.
ListenerReceive ==
    /\ listener.pc = "recvfrom"
    /\ \E ip \in Addrs, kind \in PayloadKinds, ok \in BOOLEAN :
         /\ ip = LocalAddr => (broadcaster.sent /\ kind = "beacon")
         /\ LET h == HandleDatagram(dd.devices, ip, kind, GetLocalIp(ok), now)
            IN  /\ dd' = [dd EXCEPT !.devices = h.devices]
                /\ listener' =
                      IF h.error = "none" \/ h.error \in Swallowed
                      THEN [listener EXCEPT !.pc = "loop"]
                      ELSE Exited(listener, h.error, "payload")
    /\ UNCHANGED <<now, broadcaster, owner, outsideDiscovery>>

\* _listen_for_devices: recvfrom raises OSError; except Exception prints and
\* breaks
ListenerFault ==
    /\ listener.pc = "recvfrom"
    /\ listener' = Exited(listener, "OSError", "socket")
    /\ UNCHANGED <<now, dd, broadcaster, owner, outsideDiscovery>>

\* _prune_old_devices as it would be with >= in place of >
Expired_Inclusive(devices, current_time, timeout) ==
    {ip \in Known(devices) : current_time - devices[ip][2] >= timeout}

\* _prune_old_devices: the list expired
Expired(devices, current_time, timeout) ==
    {ip \in Known(devices) : current_time - devices[ip][2] > timeout}

\* get_available_devices, first step: _prune_old_devices reads the clock and
\* collects the expired keys.  fresh and stale keep what the table held at
\* this moment: the keys seen within the last 30 seconds, and the others.
PruneScan ==
    /\ owner.pc \in {"idle", "returned"}
    /\ owner' = [owner EXCEPT
                    !.pc = "delete", !.current_time = now,
                    !.expired = Expired(dd.devices, now, PRUNE_TIMEOUT),
                    !.fresh = {ip \in Known(dd.devices) :
                                  now - dd.devices[ip][2] <= 30},
                    !.stale = {ip \in Known(dd.devices) :
                                  now - dd.devices[ip][2] > 30},
                    !.result = {}]
    /\ UNCHANGED <<now, dd, listener, broadcaster, outsideDiscovery>>

\* _prune_old_devices: del self.devices[ip] for one ip of expired
PruneDelete ==
    /\ owner.pc = "delete"
    /\ \E ip \in owner.expired :
         /\ dd' = [dd EXCEPT !.devices[ip] = <<>>]
         /\ owner' = [owner EXCEPT !.expired = @ \ {ip}]
    /\ UNCHANGED <<now, listener, broadcaster, outsideDiscovery>>

\* get_available_devices: the list it returns
DeviceList ==
    /\ owner.pc = "delete"
    /\ owner.expired = {}
    /\ owner' = [owner EXCEPT
                    !.pc = "returned",
                    !.result = {<<ip, dd.devices[ip][1]>> :
                                   ip \in Known(dd.devices)}]
    /\ UNCHANGED <<now, dd, listener, broadcaster, outsideDiscovery>>

(***************************************************************************)
(* FileSender                                                              *)
(***************************************************************************)
Ev(e, off) == [ev |-> e, off |-> off]

\* FileSender._send_metadata: the packed header
PackHeader(metadata) ==
    LET filename == EncodeUTF8(metadata.filename)
        filename_len == Len(metadata.filename)
    IN  PackBE(filename_len, 4) \o PackS(filename, filename_len)
        \o PackBE(metadata.file_size, 8)
        \o PackBE(IF metadata.encrypted THEN 1 ELSE 0, 4)

\* send_file as it would be if the except clauses left the socket open
SendFails_NoClose(s, exc) ==
    [s EXCEPT !.pc = "done", !.result = "False", !.error = exc]

\* the exit paths of send_file: the except clauses return False, and the
\* finally clause closes the socket
SendFails(s, exc) ==
    [s EXCEPT !.pc = "done", !.result = "False", !.error = exc,
              !.sock = "closed", !.log = Append(@, Ev("close", 0))]

\* send_file as it would be if the success path skipped the finally clause
SendSucceeds_NoClose(s) ==
    [s EXCEPT !.pc = "done", !.result = "True"]

SendSucceeds(s) ==
    [s EXCEPT !.pc = "done", !.result = "True",
              !.sock = "closed", !.log = Append(@, Ev("close", 0))]

\* FileSender.set_encryption
SenderSetEncryption ==
    /\ sender.pc = "start"
    /\ sender.security_handler = NoKey
    /\ \E key \in SenderKeys :
         sender' = [sender EXCEPT !.security_handler = key]
    /\ UNCHANGED <<src, port_in_use, receiver, wire, tampered>>
    /\ UNCHANGED outsideTransfer

\* send_file: open(filename, 'rb')
SendOpen ==
    /\ sender.pc = "start"
    /\ sender' = IF src.exists THEN [sender EXCEPT !.pc = "connect"]
                 ELSE SendFails(sender, "FileNotFoundError")
    /\ UNCHANGED <<src, port_in_use, receiver, wire, tampered>>
    /\ UNCHANGED outsideTransfer

\* send_file: self.sock.connect(...)
SendConnect ==
    /\ sender.pc = "connect"
    /\ sender' = IF receiver.sock = "listening"
                 THEN [sender EXCEPT !.pc = "metadata", !.sock = "connected",
                                     !.connected = TRUE,
                                     !.log = Append(@, Ev("connect", 0))]
                 ELSE SendFails(sender, "ConnectionRefusedError")
    /\ UNCHANGED <<src, port_in_use, receiver, wire, tampered>>
    /\ UNCHANGED outsideTransfer

\* send_file: the metadata dictionary and _send_metadata
SendMetadata ==
    /\ sender.pc = "metadata"
    /\ LET metadata == [filename |-> Basename(src.path),
                        file_size |-> Len(src.data),
                        encrypted |-> sender.security_handler # NoKey]
       IN  /\ wire' = wire \o PackHeader(metadata)
           /\ sender' = [sender EXCEPT !.pc = "chunks",
                                       !.log = Append(@, Ev("header", 0))]
    /\ UNCHANGED <<src, port_in_use, receiver, tampered>>
    /\ UNCHANGED outsideTransfer

\* send_file as it would be if the callback were given the share that is
\* still to be sent
SenderProgress_Remaining(total_sent, file_size) ==
    100 - (100 * total_sent) \div file_size

\* send_file: progress = int((total_sent / file_size) * 100)
SenderProgress(total_sent, file_size) == (100 * total_sent) \div file_size

\* _chunk_file: file_object.read(self.chunk_size)
ReadChunk(data, pos, chunk_size) ==
    SubSeq(data, pos + 1, Min(pos + chunk_size, Len(data)))

\* send_file: one iteration of the chunk loop
SendChunk ==
    /\ sender.pc = "chunks"
    /\ LET chunk == ReadChunk(src.data, sender.total_sent, sender.chunk_size)
       IN  /\ chunk # <<>>
           /\ IF sender.security_handler # NoKey
              THEN \E iv \in IVs :
                     wire' = wire \o InlineFrame(EncryptChunk(
                                         sender.security_handler, iv, chunk))
              ELSE wire' = wire \o chunk
           /\ sender' = [sender EXCEPT
                            !.total_sent = @ + Len(chunk),
                            !.progress = SenderProgress(
                                sender.total_sent + Len(chunk), Len(src.data)),
                            !.log = Append(@, Ev("chunk", sender.total_sent))]
    /\ UNCHANGED <<src, port_in_use, receiver, tampered>>
    /\ UNCHANGED outsideTransfer

\* send_file: the chunk generator is exhausted, return True
SendFinish ==
    /\ sender.pc = "chunks"
    /\ ReadChunk(src.data, sender.total_sent, sender.chunk_size) = <<>>
    /\ sender' = SendSucceeds(sender)
    /\ UNCHANGED <<src, port_in_use, receiver, wire, tampered>>
    /\ UNCHANGED outsideTransfer

\* send_file: sendall raises (the peer reset the connection, the network
\* failed); except Exception returns False
SendFault ==
    /\ sender.pc \in {"metadata", "chunks"}
    /\ sender' = SendFails(sender, "OSError")
    /\ UNCHANGED <<src, port_in_use, receiver, wire, tampered>>
    /\ UNCHANGED outsideTransfer

(***************************************************************************)
(* FileReceiver                                                            *)
(***************************************************************************)
\* the fields receive_file reads with _receive_exact, in wire order
HeaderFields == {"filename_len", "filename", "file_size", "encrypted"}
FrameFields == {"iv_len", "iv", "tag_len", "tag", "data_len", "ciphertext"}
ExactFields == HeaderFields \cup FrameFields

\* State of one FileReceiver and of its receive_file call.  pc is the
\* position in the code; need and data are num_bytes and data of the running
\* _receive_exact; packet_len is the length of what the last conn.recv
\* returned (-1 before the first); chunks counts the chunks read so far;
\* decrypt_call holds the arguments (iv, ciphertext, tag) of the last
\* decrypt_chunk call; progress is the last value given to progress_callback
\* (-1 before the first); save_path is the path given to open, file_at the
\* place of the file it created, file the content of that file; error is the
\* exception caught, raised the exception that left the operation.

\* The file system the receiver writes to: the root, the working directory
\* and, in it, the save directory that _create_save_dir made.  A directory is
\* the sequence of the names that lead to it from the root.
DOT == 46
Cwd == <<SEP, 99>>
SaveDir == <<114>>
Dirs == {<<>>, <<<<99>>>>, <<<<99>>, SaveDir>>}

\* the components of a path, split at the separators
RECURSIVE Split(_)
Split(p) ==
    IF \A i \in 1..Len(p) : p[i] # SEP THEN <<p>>
    ELSE LET i == CHOOSE j \in 1..Len(p) :
                      p[j] = SEP /\ \A k \in 1..(j - 1) : p[k] # SEP
         IN  <<SubSeq(p, 1, i - 1)>> \o Split(SubSeq(p, i + 1, Len(p)))

\* os.path.join(a, b): an absolute b replaces a
Join(a, b) ==
    IF b # <<>> /\ b[1] = SEP THEN b
    ELSE IF a # <<>> /\ a[Len(a)] = SEP THEN a \o b
    ELSE a \o <<SEP>> \o b

\* the directory that the components cs lead to from the directory dir, as
\* the operating system resolves them; <<<<>>>> when one of them is missing
RECURSIVE Walk(_, _)
Walk(dir, cs) ==
    IF cs = <<>> \/ dir = <<<<>>>> THEN dir
    ELSE LET c == Head(cs)
         IN  IF c = <<>> \/ c = <<DOT>> THEN Walk(dir, Tail(cs))
             ELSE IF c = <<DOT, DOT>>
             THEN Walk(IF dir = <<>> THEN dir
                       ELSE SubSeq(dir, 1, Len(dir) - 1), Tail(cs))
             ELSE IF Append(dir, c) \in Dirs
             THEN Walk(Append(dir, c), Tail(cs))
             ELSE <<<<>>>>

\* open(path, 'wb'): the error raised, or the directory and the name of the
\* file that is created
OpenForWrite(path) ==
    LET abs == IF path # <<>> /\ path[1] = SEP THEN path
               ELSE Cwd \o <<SEP>> \o path
        cs == Split(abs)
        dir == Walk(<<>>, SubSeq(cs, 1, Len(cs) - 1))
        name == cs[Len(cs)]
    IN  IF dir = <<<<>>>>
        THEN [error |-> "FileNotFoundError", dir |-> <<>>, name |-> <<>>]
        ELSE IF name \in {<<>>, <<DOT>>, <<DOT, DOT>>}
                  \/ Append(dir, name) \in Dirs
        THEN [error |-> "IsADirectoryError", dir |-> <<>>, name |-> <<>>]
        ELSE [error |-> "none", dir |-> dir, name |-> name]

\* the finally clause as it would be without self.sock.close()
FinallyClose_ConnOnly(r) == [r EXCEPT !.conn = "closed"]

\* receive_file: the finally clause
FinallyClose(r) == [r EXCEPT !.conn = "closed", !.sock = "closed"]

\* receive_file: except Exception, return ""
ReceiveFails(r, exc) ==
    FinallyClose([r EXCEPT !.pc = "done", !.result = "empty", !.error = exc])

\* receive_file: return save_path
ReceiveSucceeds(r) ==
    FinallyClose([r EXCEPT !.pc = "done", !.result = "path"])

\* receive_file: file.write(plaintext); total_received += len(plaintext)
WriteChunk(r, plaintext) ==
    [r EXCEPT !.file = @ \o plaintext,
              !.total_received = @ + Len(plaintext)]

\* receive_file: progress = min(100, int((total_received / file_size) * 100))
ReceiverProgress(total_received, file_size) ==
    Min(100, (100 * total_received) \div file_size)

\* receive_file: progress_callback(progress), after the chunk was written
ReportProgress(r) ==
    [r EXCEPT !.progress = ReceiverProgress(r.total_received, r.file_size)]

RECURSIVE Begin(_, _, _), Complete(_, _), LoopHead(_)

\* a call of _receive_exact(num_bytes): with num_bytes = 0 its loop body
\* never runs and it returns b'' at once
Begin(r, field, num_bytes) ==
    IF num_bytes = 0
    THEN Complete([r EXCEPT !.pc = field, !.need = 0, !.data = <<>>], <<>>)
    ELSE [r EXCEPT !.pc = field, !.need = num_bytes, !.data = <<>>]

\* receive_file: while total_received < file_size
LoopHead(r) ==
    IF r.total_received < r.file_size
    THEN IF r.encrypted THEN Begin(r, "iv_len", 4)
         ELSE [r EXCEPT !.pc = "plain", !.need = 0, !.data = <<>>]
    ELSE ReceiveSucceeds([r EXCEPT !.need = 0, !.data = <<>>])

\* receive_file: what follows the _receive_exact call for field r.pc, which
\* returned bs
Complete(r, bs) ==
    CASE r.pc = "filename_len" ->
            Begin([r EXCEPT !.filename_len = UnpackBE(bs)],
                  "filename", UnpackBE(bs))
      [] r.pc = "filename" ->
            IF ValidUTF8(bs)
            THEN Begin([r EXCEPT !.filename = DecodeUTF8(bs)], "file_size", 8)
            ELSE ReceiveFails(r, "UnicodeDecodeError")
      [] r.pc = "file_size" ->
            Begin([r EXCEPT !.file_size = UnpackBE(bs)], "encrypted", 4)
      [] r.pc = "encrypted" ->
            \* save_path = os.path.join(self.save_dir, filename), and
            \* open(save_path, 'wb')
            LET save_path == Join(SaveDir, r.filename)
                f == OpenForWrite(save_path)
                rr == [r EXCEPT !.encrypted = UnpackBE(bs) # 0,
                                !.save_path = save_path]
            IN  IF f.error # "none"
                THEN ReceiveFails(rr, f.error)
                ELSE LoopHead([rr EXCEPT !.file_open = TRUE, !.file = <<>>,
                                         !.file_at = Append(f.dir, f.name)])
      [] r.pc = "iv_len" -> Begin(r, "iv", UnpackBE(bs))
      [] r.pc = "iv" -> Begin([r EXCEPT !.iv = bs], "tag_len", 4)
      [] r.pc = "tag_len" -> Begin(r, "tag", UnpackBE(bs))
      [] r.pc = "tag" -> Begin([r EXCEPT !.tag = bs], "data_len", 4)
      [] r.pc = "data_len" -> Begin(r, "ciphertext", UnpackBE(bs))
      [] r.pc = "ciphertext" ->
            IF r.security_handler = NoKey
            THEN ReceiveFails(r, "AttributeError")
            ELSE LET d == DecryptChunk(r.security_handler, r.iv, bs, r.tag)
                     rr == [r EXCEPT !.chunks = @ + 1,
                                     !.decrypt_call = <<r.iv, bs, r.tag>>]
                 IN  IF d.error # "none"
                     THEN ReceiveFails(rr, d.error)
                     ELSE LoopHead(ReportProgress(WriteChunk(rr, d.plaintext)))

\* the sender's end of the connection was closed after it was established
PeerClosed == sender.connected /\ sender.sock = "closed"

\* FileReceiver.set_decryption
ReceiverSetDecryption ==
    /\ receiver.pc = "created"
    /\ receiver.security_handler = NoKey
    /\ \E key \in Keys : receiver' = [receiver EXCEPT !.security_handler = key]
    /\ UNCHANGED <<src, port_in_use, sender, wire, tampered>>
    /\ UNCHANGED outsideTransfer

\* FileReceiver.start: bind and listen; bind raises OSError when the port is
\* taken
Start ==
    /\ receiver.pc = "created"
    /\ receiver' = IF port_in_use
                   THEN [receiver EXCEPT !.pc = "done", !.raised = "OSError"]
                   ELSE [receiver EXCEPT !.pc = "listening",
                                         !.sock = "listening"]
    /\ UNCHANGED <<src, port_in_use, sender, wire, tampered>>
    /\ UNCHANGED outsideTransfer

\* FileReceiver.accept_connection: blocks until a sender has connected
AcceptConnection ==
    /\ receiver.pc = "listening"
    /\ sender.connected
    /\ receiver' = [receiver EXCEPT !.pc = "accepted", !.conn = "open"]
    /\ UNCHANGED <<src, port_in_use, sender, wire, tampered>>
    /\ UNCHANGED outsideTransfer

\* receive_file is called on an accepted connection
ReceiveFile ==
    /\ receiver.pc = "accepted"
    /\ receiver' = Begin(receiver, "filename_len", 4)
    /\ UNCHANGED <<src, port_in_use, sender, wire, tampered>>
    /\ UNCHANGED outsideTransfer

\* receive_file is called while self.conn is None: self.conn.recv raises
\* AttributeError, which except Exception catches; then self.conn.close() in
\* the finally clause raises AttributeError again, which leaves receive_file
\* before self.sock.close() is reached
ReceiveFileNoConnection ==
    /\ receiver.pc \in {"created", "listening"}
    /\ receiver.conn = "None"
    /\ receiver' = [receiver EXCEPT !.pc = "done", !.error = "AttributeError",
                                    !.raised = "AttributeError"]
    /\ UNCHANGED <<src, port_in_use, sender, wire, tampered>>
    /\ UNCHANGED outsideTransfer

\* _receive_exact as it would be with conn.recv(num_bytes)
RecvExact_WholeCount ==
    /\ receiver.pc \in ExactFields
    /\ wire # <<>>
    /\ \E k \in 1..Min(receiver.need, Len(wire)) :
         LET data == receiver.data \o Take(wire, k)
         IN  /\ wire' = Drop(wire, k)
             /\ receiver' = IF Len(data) < receiver.need
                            THEN [receiver EXCEPT !.data = data]
                            ELSE Complete([receiver EXCEPT !.data = data],
                                          data)
    /\ UNCHANGED <<src, port_in_use, sender, tampered>>
    /\ UNCHANGED outsideTransfer

\* _receive_exact: one conn.recv(num_bytes - len(data)) that returns k bytes
RecvExact ==
    /\ receiver.pc \in ExactFields
    /\ wire # <<>>
    /\ \E k \in 1..Min(receiver.need - Len(receiver.data), Len(wire)) :
         LET data == receiver.data \o Take(wire, k)
         IN  /\ wire' = Drop(wire, k)
             /\ receiver' = IF Len(data) < receiver.need
                            THEN [receiver EXCEPT !.data = data]
                            ELSE Complete([receiver EXCEPT !.data = data],
                                          data)
    /\ UNCHANGED <<src, port_in_use, sender, tampered>>
    /\ UNCHANGED outsideTransfer

\* _receive_exact: conn.recv returns b'' at the end of the stream, and
\* ConnectionError is raised
RecvExactClosed ==
    /\ receiver.pc \in ExactFields
    /\ wire = <<>>
    /\ PeerClosed
    /\ receiver' = ReceiveFails([receiver EXCEPT !.packet_len = 0],
                                "ConnectionError")
    /\ UNCHANGED <<src, port_in_use, sender, wire, tampered>>
    /\ UNCHANGED outsideTransfer

\* receive_file, unencrypted: plaintext = self.conn.recv(4096) returns k
\* bytes, which are written
RecvPlain ==
    /\ receiver.pc = "plain"
    /\ wire # <<>>
    /\ \E k \in 1..Min(RECV_BUFSIZE, Len(wire)) :
         /\ wire' = Drop(wire, k)
         /\ receiver' = LoopHead(ReportProgress(
                            [WriteChunk(receiver, Take(wire, k)) EXCEPT
                                !.packet_len = k, !.chunks = @ + 1]))
    /\ UNCHANGED <<src, port_in_use, sender, tampered>>
    /\ UNCHANGED outsideTransfer

\* receive_file, unencrypted: conn.recv(4096) returns b'' at the end of the
\* stream; b'' is written and the loop condition is evaluated again
RecvPlainClosed ==
    /\ receiver.pc = "plain"
    /\ wire = <<>>
    /\ PeerClosed
    /\ receiver' = LoopHead(ReportProgress(
                       [WriteChunk(receiver, <<>>) EXCEPT !.packet_len = 0]))
    /\ UNCHANGED <<src, port_in_use, sender, wire, tampered>>
    /\ UNCHANGED outsideTransfer

(***************************************************************************)
(* The peer or the network alters one byte in flight, once per transfer.   *)
(***************************************************************************)
\* The altered byte is the one at the head of the stream: recv can stop in
\* front of any byte, so every byte of the stream can be reached, and altering
\* a byte earlier than that is no different for the receiver.
FlipBit(b) == IF b % 2 = 0 THEN b + 1 ELSE b - 1

Tamper ==
    /\ ~tampered
    /\ wire # <<>>
    /\ wire' = <<FlipBit(Head(wire))>> \o Tail(wire)
    /\ tampered' = TRUE
    /\ UNCHANGED <<src, port_in_use, sender, receiver>>
    /\ UNCHANGED outsideTransfer

(***************************************************************************)
(* A peer that is not a FileSender: it connects, writes a header of its    *)
(* own making and some body bytes, and closes.                             *)
(***************************************************************************)
MaxPeerNameLen == 4

PeerNames == SeqsUpTo({DOT, SEP, 97}, 1, MaxPeerNameLen)

PeerSend ==
    /\ sender.pc = "start"
    /\ receiver.sock = "listening"
    /\ \E name \in PeerNames, file_size \in 0..1, encrypted \in 0..1,
          body \in SeqsUpTo({65}, 0, 1) :
         wire' = PackBE(Len(name), 4) \o name \o PackBE(file_size, 8)
                 \o PackBE(encrypted, 4) \o body
    /\ sender' = [sender EXCEPT !.pc = "done", !.sock = "closed",
                                !.connected = TRUE]
    /\ UNCHANGED <<src, port_in_use, receiver, tampered>>
    /\ UNCHANGED outsideTransfer

(***************************************************************************)
(* FileTransferCLI (src/src/Main.py): the gesture loop of a device and the *)
(* threads it starts.  cli[d] is the FileTransferCLI of device d: its mode *)
(* flags, the file it holds ready (0 for None, else the number of the      *)
(* file), the files it found, its port, the exception that ended its main  *)
(* loop, and its threads: preparers run _prepare_files, waiters run        *)
(* _wait_for_sender and senders run _send_file_to_receiver.  A waiter      *)
(* carries its FileReceiver: the port it was made with, its listening      *)
(* socket, the connections that wait to be accepted and the one accepted.  *)
(* A thread whose pc is in Ended has left its function, and its place is   *)
(* free for the next thread of its kind.                                   *)
(***************************************************************************)
Devices == {"a", "b"}
Other(d) == CHOOSE e \in Devices : e # d

PORT == 65432
\* connections that the socket of listen(1) holds until accept takes them
BACKLOG == 2

\* files that glob finds in ~/Downloads and ~/Desktop
MaxFiles == 1
\* threads of one kind that a device runs at a time
MaxPreparers == 1
MaxWaiters == 1
MaxSenders == 1
\* times that self.port += 1 is done
MaxPortShift == 1

FileLists == {[i \in 1..n |-> i] : n \in 0..MaxFiles}
Gestures == {"None", "Fist", "Palm"}
\* the user of device a sends and receives, the user of device b receives
GesturesAt(d) == IF d = "a" THEN Gestures ELSE {"None", "Palm"}
Timers == {"standby", "receiver", "selection"}
Ended == {"none", "done", "died"}

NoPreparer == [pc |-> "none"]
NoWaiter == [pc |-> "none", port |-> 0, sock |-> "none", backlog |-> <<>>,
             conn |-> "None", saved_path |-> "unset", raised |-> "none"]
NoSender == [pc |-> "none", devices |-> <<>>, i |-> 0, target_ip |-> "None",
             result |-> "unset"]

\* FileTransferCLI.__init__
CliInit ==
    [file_selection_mode |-> FALSE, standby_mode |-> FALSE,
     receiver_mode |-> FALSE, standby_file |-> 0, available_files |-> <<>>,
     selected_file_index |-> 0, port |-> PORT, raised |-> "none",
     preparers |-> [i \in 1..MaxPreparers |-> NoPreparer],
     waiters |-> [i \in 1..MaxWaiters |-> NoWaiter],
     senders |-> [i \in 1..MaxSenders |-> NoSender]]

CliIdle == [d \in Devices |-> CliInit]

\* the process of device d runs: its main loop has raised nothing
Alive(d) == cli[d].raised = "none"

HasFree(threads) == \E i \in 1..Len(threads) : threads[i].pc \in Ended

\* threading.Thread(target=...).start(): the thread takes the first free place
Spawn(threads, thread) ==
    LET i == CHOOSE k \in 1..Len(threads) :
                 /\ threads[k].pc \in Ended
                 /\ \A j \in 1..(k - 1) : threads[j].pc \notin Ended
    IN  [threads EXCEPT ![i] = thread]

\* what the clock may say of the timers: a timer that was never started, or
\* whose mode is off, is not looked at
Elapsed(c) ==
    {e \in [Timers -> BOOLEAN] :
        /\ e["standby"] => c.standby_mode
        /\ e["receiver"] => c.receiver_mode
        /\ e["selection"] => c.file_selection_mode}

\* the three timeouts at the head of an iteration of the main loop; e says
\* of each timer whether more than its timeout has passed since its start
Expire(c, e) ==
    LET c1 == IF c.standby_mode /\ e["standby"]
              THEN [c EXCEPT !.standby_mode = FALSE, !.standby_file = 0]
              ELSE c
        c2 == IF c1.receiver_mode /\ e["receiver"]
              THEN [c1 EXCEPT !.receiver_mode = FALSE]
              ELSE c1
    IN  IF c2.file_selection_mode /\ e["selection"]
        THEN [c2 EXCEPT !.file_selection_mode = FALSE,
                        !.available_files = <<>>]
        ELSE c2

\* the branch that a gesture takes in the main loop
Branch(c, gesture) ==
    IF gesture = "Fist"
    THEN IF ~c.standby_mode /\ ~c.receiver_mode /\ ~c.file_selection_mode
         THEN "select"
         ELSE IF c.file_selection_mode /\ c.available_files # <<>>
         THEN "next"
         ELSE "no_files"
    ELSE IF gesture = "Palm"
    THEN IF c.file_selection_mode /\ c.available_files # <<>>
         THEN "confirm"
         ELSE IF ~c.receiver_mode /\ ~c.standby_mode
         THEN "receive"
         ELSE IF c.standby_mode /\ c.standby_file # 0
         THEN "send"
         ELSE "no_selection"
    ELSE "none"

\* the branch starts a thread, and a place is free for it
CanStart(c, gesture) ==
    LET b == Branch(c, gesture)
    IN  /\ b = "select" => HasFree(c.preparers)
        /\ b = "receive" => HasFree(c.waiters)
        /\ b = "send" => HasFree(c.senders)

\* self.available_files[self.selected_file_index] raises IndexError when the
\* index is past the end of the list
OnGesture(c, gesture) ==
    LET b == Branch(c, gesture)
    IN  CASE b = "select" ->
               [c EXCEPT !.file_selection_mode = TRUE,
                         !.preparers = Spawn(@, [pc |-> "start"])]
          [] b = "next" ->
               [c EXCEPT !.selected_file_index =
                             (@ + 1) % Len(c.available_files)]
          [] b = "confirm" ->
               IF c.selected_file_index >= Len(c.available_files)
               THEN [c EXCEPT !.raised = "IndexError"]
               ELSE [c EXCEPT !.standby_file =
                                  c.available_files[c.selected_file_index + 1],
                              !.standby_mode = TRUE,
                              !.file_selection_mode = FALSE]
          [] b = "receive" ->
               [c EXCEPT !.receiver_mode = TRUE,
                         !.waiters = Spawn(@, [NoWaiter EXCEPT !.pc = "loop"])]
          [] b = "send" ->
               [c EXCEPT !.senders = Spawn(@, [NoSender EXCEPT !.pc = "start"])]
          [] OTHER -> c

\* _draw_file_selection reads the selected file at the end of the iteration
DrawFileSelection(c) ==
    IF /\ c.raised = "none"
       /\ c.file_selection_mode
       /\ c.available_files # <<>>
       /\ c.selected_file_index >= Len(c.available_files)
    THEN [c EXCEPT !.raised = "IndexError"]
    ELSE c

\* one iteration of the loop of show_main_menu: the timeouts, the gesture
\* that the detector reports after the cooldown ("None" when it reports
\* none), and the drawing
MainLoop(d) ==
    /\ Alive(d)
    /\ \E gesture \in GesturesAt(d), e \in Elapsed(cli[d]) :
         LET c == Expire(cli[d], e)
         IN  /\ CanStart(c, gesture)
             /\ cli' = [cli EXCEPT ![d] = DrawFileSelection(OnGesture(c, gesture))]
    /\ UNCHANGED outsideCli

\* _prepare_files: self.available_files = []
PrepareClear(d) ==
    /\ Alive(d)
    /\ \E i \in 1..MaxPreparers :
         /\ cli[d].preparers[i].pc = "start"
         /\ cli' = [cli EXCEPT ![d].available_files = <<>>,
                               ![d].preparers[i].pc = "listing"]
    /\ UNCHANGED outsideCli

\* _prepare_files: the files of the two directories
PrepareList(d) ==
    /\ Alive(d)
    /\ \E i \in 1..MaxPreparers, files \in FileLists :
         /\ cli[d].preparers[i].pc = "listing"
         /\ cli' = [cli EXCEPT ![d].available_files = files,
                               ![d].preparers[i].pc = "listed"]
    /\ UNCHANGED outsideCli

\* _prepare_files: no file ends the selection, a file is selected otherwise
PrepareFinish(d) ==
    /\ Alive(d)
    /\ \E i \in 1..MaxPreparers :
         /\ cli[d].preparers[i].pc = "listed"
         /\ cli' = IF cli[d].available_files = <<>>
                   THEN [cli EXCEPT ![d].file_selection_mode = FALSE,
                                    ![d].preparers[i].pc = "done"]
                   ELSE [cli EXCEPT ![d].selected_file_index = 0,
                                    ![d].preparers[i].pc = "done"]
    /\ UNCHANGED outsideCli

\* a socket of device d listens on the port and has room for a connection
Listens(d, port) ==
    /\ Alive(d)
    /\ \E w \in 1..MaxWaiters : /\ cli[d].waiters[w].sock = "listening"
                                /\ cli[d].waiters[w].port = port
CanConnect(d, port) ==
    /\ Alive(d)
    /\ \E w \in 1..MaxWaiters : /\ cli[d].waiters[w].sock = "listening"
                                /\ cli[d].waiters[w].port = port
                                /\ Len(cli[d].waiters[w].backlog) < BACKLOG
ListenerOf(d, port) ==
    CHOOSE w \in 1..MaxWaiters : /\ cli[d].waiters[w].sock = "listening"
                                 /\ cli[d].waiters[w].port = port

\* _wait_for_sender at the head of its loop: while self.receiver_mode makes
\* a FileReceiver, and the constructor may raise (the socket or the
\* directory cannot be made), which the except clause reports before the
\* loop goes on with no receiver among the locals; after the loop,
\* self.receiver_mode = False
WaitLoop(d) ==
    /\ Alive(d)
    /\ \E w \in 1..MaxWaiters, made \in BOOLEAN :
         /\ cli[d].waiters[w].pc = "loop"
         /\ cli' = IF ~cli[d].receiver_mode
                   THEN [cli EXCEPT ![d].receiver_mode = FALSE,
                                    ![d].waiters[w] =
                                        [NoWaiter EXCEPT !.pc = "done"]]
                   ELSE IF made
                   THEN [cli EXCEPT ![d].waiters[w].pc = "created",
                                    ![d].waiters[w].port = cli[d].port]
                   ELSE [cli EXCEPT ![d].waiters[w].raised = "OSError"]
    /\ UNCHANGED outsideCli

\* receiver.start(): bind raises "Address already in use" when a socket of
\* the device listens on the port, and then self.port += 1 and continue,
\* which runs the finally clause
WaitStart(d) ==
    /\ Alive(d)
    /\ \E w \in 1..MaxWaiters :
         /\ cli[d].waiters[w].pc = "created"
         /\ IF Listens(d, cli[d].waiters[w].port)
            THEN /\ cli[d].port < PORT + MaxPortShift
                 /\ cli' = [cli EXCEPT ![d].port = @ + 1,
                                       ![d].waiters[w].raised = "OSError",
                                       ![d].waiters[w].pc = "finally"]
            ELSE cli' = [cli EXCEPT ![d].waiters[w].sock = "listening",
                                    ![d].waiters[w].pc = "listening"]
    /\ UNCHANGED outsideCli

\* receiver.accept_connection(): blocks until a connection waits, and takes
\* the one that waited longest
WaitAccept(d) ==
    /\ Alive(d)
    /\ \E w \in 1..MaxWaiters :
         /\ cli[d].waiters[w].pc = "listening"
         /\ cli[d].waiters[w].backlog # <<>>
         /\ cli' = [cli EXCEPT ![d].waiters[w].conn = Head(cli[d].waiters[w].backlog),
                               ![d].waiters[w].backlog = Tail(@),
                               ![d].waiters[w].pc = "accepted"]
    /\ UNCHANGED outsideCli

\* receiver.receive_file(): the path of the saved file when the connection
\* is a transfer that comes through, "" when the peer closed before the
\* header or the transfer failed; its finally clause closes the connection
\* and the listening socket, and with it the connections that still waited
WaitReceive(d) ==
    /\ Alive(d)
    /\ \E w \in 1..MaxWaiters, through \in BOOLEAN :
         /\ cli[d].waiters[w].pc = "accepted"
         /\ cli' = [cli EXCEPT ![d].waiters[w].saved_path =
                                   IF cli[d].waiters[w].conn = "transfer" /\ through
                                   THEN "path" ELSE "",
                               ![d].waiters[w].sock = "closed",
                               ![d].waiters[w].backlog = <<>>,
                               ![d].waiters[w].pc = "finally"]
    /\ UNCHANGED outsideCli

\* the finally clause of _wait_for_sender: receiver.stop(), and FileReceiver
\* has no attribute stop: AttributeError leaves the loop and the thread
WaitStop(d) ==
    /\ Alive(d)
    /\ \E w \in 1..MaxWaiters :
         /\ cli[d].waiters[w].pc = "finally"
         /\ cli' = [cli EXCEPT ![d].waiters[w] =
                                   [NoWaiter EXCEPT !.raised = "AttributeError",
                                                    !.pc = "died"]]
    /\ UNCHANGED outsideCli

\* _send_file_to_receiver: no file, no thread
SendStart(d) ==
    /\ Alive(d)
    /\ \E s \in 1..MaxSenders :
         /\ cli[d].senders[s].pc = "start"
         /\ cli' = [cli EXCEPT ![d].senders[s].pc =
                                   IF cli[d].standby_file = 0 THEN "done"
                                   ELSE "devices"]
    /\ UNCHANGED outsideCli

\* devices = self._wait_for_devices(): the devices that discovery lists,
\* None when it lists none in 25 seconds
SendDevices(d) ==
    /\ Alive(d)
    /\ \E s \in 1..MaxSenders, devices \in {<<>>, <<Other(d)>>} :
         /\ cli[d].senders[s].pc = "devices"
         /\ cli' = IF devices = <<>>
                   THEN [cli EXCEPT ![d].senders[s] =
                                        [NoSender EXCEPT !.pc = "done"]]
                   ELSE [cli EXCEPT ![d].senders[s].devices = devices,
                                    ![d].senders[s].i = 1,
                                    ![d].senders[s].pc = "probe"]
    /\ UNCHANGED outsideCli

\* the loop over the devices: connect and close; the first device that
\* takes the connection is the target, and no target ends the thread
SendProbe(d) ==
    /\ Alive(d)
    /\ \E s \in 1..MaxSenders :
         LET t == cli[d].senders[s]
             ip == t.devices[t.i]
         IN  /\ t.pc = "probe"
             /\ cli' = IF CanConnect(ip, cli[d].port)
                       THEN [cli EXCEPT
                               ![ip].waiters[ListenerOf(ip, cli[d].port)].backlog =
                                   Append(@, "probe"),
                               ![d].senders[s].target_ip = ip,
                               ![d].senders[s].pc = "attempt"]
                       ELSE IF t.i < Len(t.devices)
                       THEN [cli EXCEPT ![d].senders[s].i = @ + 1]
                       ELSE [cli EXCEPT ![d].senders[s] =
                                            [NoSender EXCEPT !.pc = "done"]]
    /\ UNCHANGED outsideCli

\* one pass of the loop of _send_file_to_receiver up to its finally clause:
\* FileSender(target_ip, self.port), whose constructor may raise, and
\* send_file, which opens the file, connects, writes the file to the
\* connection and closes it, and returns True, or returns False when the
\* file is gone or the connection is refused
SendAttempt(d) ==
    /\ Alive(d)
    /\ \E s \in 1..MaxSenders, made \in BOOLEAN, found \in BOOLEAN :
         LET t == cli[d].senders[s]
         IN  /\ t.pc = "attempt"
             /\ cli' = IF ~made
                       THEN [cli EXCEPT ![d].senders[s].result = "raised",
                                        ![d].senders[s].pc = "finally"]
                       ELSE IF found /\ CanConnect(t.target_ip, cli[d].port)
                       THEN [cli EXCEPT
                               ![t.target_ip].waiters[ListenerOf(t.target_ip, cli[d].port)].backlog =
                                   Append(@, "transfer"),
                               ![d].senders[s].result = "True",
                               ![d].senders[s].pc = "finally"]
                       ELSE [cli EXCEPT ![d].senders[s].result = "False",
                                        ![d].senders[s].pc = "finally"]
    /\ UNCHANGED outsideCli

\* the finally clause (sender.stop()) and what follows it: after False the
\* next pass of while True; after True or an exception the break, and
\* self.standby_mode = False, self.standby_file = None
SendStop(d) ==
    /\ Alive(d)
    /\ \E s \in 1..MaxSenders :
         LET t == cli[d].senders[s]
         IN  /\ t.pc = "finally"
             /\ cli' = IF t.result = "False"
                       THEN [cli EXCEPT ![d].senders[s].pc = "attempt"]
                       ELSE [cli EXCEPT ![d].standby_mode = FALSE,
                                        ![d].standby_file = 0,
                                        ![d].senders[s] =
                                            [NoSender EXCEPT !.pc = "done"]]
    /\ UNCHANGED outsideCli

(***************************************************************************)
(* Specifications                                                          *)
(***************************************************************************)
Names == SeqsUpTo(Chars, 1, MaxNameLen)
Files == SeqsUpTo(ByteVals, 0, MaxFileLen)

SenderInit ==
    [pc |-> "start", sock |-> "open", connected |-> FALSE,
     security_handler |-> NoKey, chunk_size |-> ChunkSize,
     total_sent |-> 0, progress |-> -1, result |-> "none", error |-> "none",
     log |-> <<>>]

ReceiverInit ==
    [pc |-> "created", sock |-> "open", conn |-> "None",
     security_handler |-> NoKey, need |-> 0, data |-> <<>>, packet_len |-> -1,
     filename_len |-> 0, filename |-> <<>>, file_size |-> 0,
     encrypted |-> FALSE, iv |-> <<>>, tag |-> <<>>,
     decrypt_call |-> <<>>, total_received |-> 0, chunks |-> 0,
     progress |-> -1, save_path |-> <<>>, file_open |-> FALSE,
     file_at |-> <<>>, file |-> <<>>,
     result |-> "none", error |-> "none", raised |-> "none"]

Init ==
    /\ src \in {f \in [exists : BOOLEAN, path : {SrcDir \o n : n \in Names},
                       data : Files] : ~f.exists => f.data = <<>>}
    /\ port_in_use \in BOOLEAN
    /\ sender = SenderInit
    /\ receiver = ReceiverInit
    /\ wire = <<>>
    /\ tampered = FALSE
    /\ sh = HandlerInit
    /\ DiscoveryIdle
    /\ cli = CliIdle

SenderNext ==
    \/ SenderSetEncryption
    \/ SendOpen
    \/ SendConnect
    \/ SendMetadata
    \/ SendChunk
    \/ SendFinish
    \/ SendFault

ReceiverNext ==
    \/ ReceiverSetDecryption
    \/ Start
    \/ AcceptConnection
    \/ ReceiveFile
    \/ ReceiveFileNoConnection
    \/ RecvExact
    \/ RecvExactClosed
    \/ RecvPlain
    \/ RecvPlainClosed

Next == SenderNext \/ ReceiverNext

Spec == Init /\ [][Next]_vars

\* the same transfer with a peer or network that alters a byte in flight
NextTamper == Next \/ Tamper

\* one existing file "d/a" of every length, the port free
TamperFiles == {[i \in 1..n |-> IF i % 2 = 1 THEN 65 ELSE 66] : n \in 0..MaxFileLen}

InitTamper ==
    /\ src \in [exists : {TRUE}, path : {SrcDir \o <<97>>},
                data : TamperFiles]
    /\ port_in_use = FALSE
    /\ sender = SenderInit
    /\ receiver = ReceiverInit
    /\ wire = <<>>
    /\ tampered = FALSE
    /\ sh = HandlerInit
    /\ DiscoveryIdle
    /\ cli = CliIdle

SpecTamper == InitTamper /\ [][NextTamper]_vars

\* the receiver alone, facing a peer of any kind
InitPeer ==
    /\ src = [exists |-> FALSE, path |-> SrcDir \o <<97>>, data |-> <<>>]
    /\ port_in_use = FALSE
    /\ sender = SenderInit
    /\ receiver = ReceiverInit
    /\ wire = <<>>
    /\ tampered = FALSE
    /\ sh = HandlerInit
    /\ DiscoveryIdle
    /\ cli = CliIdle

NextPeer == ReceiverNext \/ PeerSend

SpecPeer == InitPeer /\ [][NextPeer]_vars

\* one SecurityHandler alone
InitCipher ==
    /\ src = [exists |-> FALSE, path |-> SrcDir \o <<97>>, data |-> <<>>]
    /\ port_in_use = FALSE
    /\ sender = SenderInit
    /\ receiver = ReceiverInit
    /\ wire = <<>>
    /\ tampered = FALSE
    /\ sh = HandlerInit
    /\ DiscoveryIdle
    /\ cli = CliIdle

NextCipher ==
    \/ Construct
    \/ Encrypt
    \/ TakeFrame
    \/ Pack
    \/ Truncate
    \/ Unpack
    \/ Decrypt

SpecCipher == InitCipher /\ [][NextCipher]_vars

\* one DeviceDiscovery, its two threads and its owner
InitDiscovery ==
    /\ src = [exists |-> FALSE, path |-> SrcDir \o <<97>>, data |-> <<>>]
    /\ port_in_use = FALSE
    /\ sender = SenderInit
    /\ receiver = ReceiverInit
    /\ wire = <<>>
    /\ tampered = FALSE
    /\ sh = HandlerInit
    /\ DiscoveryIdle
    /\ cli = CliIdle

NextDiscovery ==
    \/ Tick
    \/ StartDiscovery
    \/ StopDiscovery
    \/ BroadcastLoop
    \/ BroadcastSend
    \/ BroadcastFault
    \/ BroadcastWake
    \/ ListenerBind
    \/ ListenerLoop
    \/ ListenerReceive
    \/ ListenerFault
    \/ PruneScan
    \/ PruneDelete
    \/ DeviceList

SpecDiscovery == InitDiscovery /\ [][NextDiscovery]_vars

\* DeviceDiscovery with its threads scheduled: a thread that can take a
\* step of its own takes it.  The arrival of a datagram and a fault of a
\* socket are left to the network.
NextStop ==
    \/ StartDiscovery
    \/ StopDiscovery
    \/ BroadcastLoop
    \/ BroadcastSend
    \/ BroadcastFault
    \/ BroadcastWake
    \/ ListenerBind
    \/ ListenerLoop
    \/ ListenerReceive
    \/ ListenerFault

SpecStop ==
    /\ InitDiscovery
    /\ [][NextStop]_vars
    /\ WF_vars(BroadcastLoop)
    /\ WF_vars(BroadcastSend)
    /\ WF_vars(BroadcastWake)
    /\ WF_vars(ListenerBind)
    /\ WF_vars(ListenerLoop)

\* _receive_exact alone: a receiver at the head of the chunk loop of an
\* encrypted transfer, and a peer that wrote the bytes src.data and closed.
\* The receiver asks for 4 bytes, then for as many as they say.
MaxStreamLen == 6

Streams == SeqsUpTo({0, 1, 2}, 0, MaxStreamLen)

InitExact ==
    /\ src \in [exists : {FALSE}, path : {SrcDir \o <<97>>}, data : Streams]
    /\ port_in_use = FALSE
    /\ sender = [SenderInit EXCEPT !.pc = "done", !.sock = "closed",
                                   !.connected = TRUE]
    /\ receiver = LoopHead([ReceiverInit EXCEPT
                              !.sock = "listening", !.conn = "open",
                              !.security_handler = Key1, !.filename_len = 1,
                              !.filename = <<97>>, !.file_size = 1,
                              !.encrypted = TRUE, !.file_open = TRUE,
                              !.save_path = Join(SaveDir, <<97>>),
                              !.file_at = <<<<99>>, SaveDir, <<97>>>>])
    /\ wire = src.data
    /\ tampered = FALSE
    /\ sh = HandlerInit
    /\ DiscoveryIdle
    /\ cli = CliIdle

NextExact == RecvExact \/ RecvExactClosed

SpecExact == InitExact /\ [][NextExact]_vars

\* two devices, their gesture loops and their threads
InitCli ==
    /\ src = [exists |-> FALSE, path |-> SrcDir \o <<97>>, data |-> <<>>]
    /\ port_in_use = FALSE
    /\ sender = SenderInit
    /\ receiver = ReceiverInit
    /\ wire = <<>>
    /\ tampered = FALSE
    /\ sh = HandlerInit
    /\ DiscoveryIdle
    /\ cli = CliIdle

NextCli ==
    \E d \in Devices :
        \/ MainLoop(d)
        \/ PrepareClear(d)
        \/ PrepareList(d)
        \/ PrepareFinish(d)
        \/ WaitLoop(d)
        \/ WaitStart(d)
        \/ WaitAccept(d)
        \/ WaitReceive(d)
        \/ WaitStop(d)
        \/ SendStart(d)
        \/ SendDevices(d)
        \/ SendProbe(d)
        \/ SendAttempt(d)
        \/ SendStop(d)

SpecCli == InitCli /\ [][NextCli]_vars

\* the devices with their threads scheduled: a thread that can take a step
\* takes it.  Gestures, and the clock of the timeouts, are owed to no one.
SpecCliLive ==
    /\ InitCli
    /\ [][NextCli]_vars
    /\ \A d \in Devices :
         /\ WF_vars(PrepareClear(d))
         /\ WF_vars(PrepareList(d))
         /\ WF_vars(PrepareFinish(d))
         /\ WF_vars(WaitLoop(d))
         /\ WF_vars(WaitStart(d))
         /\ WF_vars(WaitAccept(d))
         /\ WF_vars(WaitReceive(d))
         /\ WF_vars(WaitStop(d))
         /\ WF_vars(SendStart(d))
         /\ WF_vars(SendDevices(d))
         /\ WF_vars(SendProbe(d))
         /\ WF_vars(SendAttempt(d))
         /\ WF_vars(SendStop(d))

(***************************************************************************)
(* Properties                                                              *)
(***************************************************************************)
\* what the sender encodes in the header
SentName == Basename(src.path)
SentSize == Len(src.data)
SentFlag == sender.security_handler # NoKey

\* receive_file has returned on a connection the receiver accepted
ReceiveReturned == receiver.pc = "done" /\ receiver.conn # "None"

\* the offsets of the chunk writes in the sender's event log, in log order
ChunkOffsets(log) ==
    LET idx == {i \in 1..Len(log) : log[i].ev = "chunk"}
        nth(k) == CHOOSE i \in idx : Cardinality({j \in idx : j < i}) = k - 1
    IN  [k \in 1..Cardinality(idx) |-> log[nth(k)].off]

\* number of chunks a file of n bytes is split into
NumChunks(n) == (n + ChunkSize - 1) \div ChunkSize

\* C1: unencrypted end-to-end: once send_file without a key has returned True
\* and receive_file has returned on the accepted connection, receive_file
\* returned a saved path and the output file holds exactly the bytes of the
\* source file, in order, however recv fragmented the stream.
C1_UnencryptedEndToEnd ==
    (sender.result = "True" /\ sender.security_handler = NoKey
     /\ ReceiveReturned)
    => (receiver.result = "path" /\ receiver.file = src.data)

\* C1, for file names whose UTF-8 encoding has one byte per character
C1_SingleByteNames ==
    Len(EncodeUTF8(SentName)) = Len(SentName) => C1_UnencryptedEndToEnd

\* C2: encrypted end-to-end: with the same key on both sides, the sender
\* writes one frame per chunk of chunk_size bytes (the last possibly
\* shorter) in file order, and once send_file has returned True and
\* receive_file has returned, the output file is byte-identical to the source.
C2_EncryptedEndToEnd ==
    (sender.security_handler # NoKey
     /\ receiver.security_handler = sender.security_handler)
    => /\ ChunkOffsets(sender.log)
            = [k \in 1..NumChunks(sender.total_sent) |-> (k - 1) * ChunkSize]
       /\ (sender.result = "True" /\ ReceiveReturned)
            => (receiver.result = "path" /\ receiver.file = src.data
                /\ receiver.chunks = NumChunks(SentSize))

\* C2, for file names whose UTF-8 encoding has one byte per character
C2_SingleByteNames ==
    Len(EncodeUTF8(SentName)) = Len(SentName) => C2_EncryptedEndToEnd

\* the frame handed to the last decrypt_chunk call verifies under the
\* receiver's key
LastFrameVerifies ==
    LET iv == receiver.decrypt_call[1]
        ciphertext == receiver.decrypt_call[2]
        tag == receiver.decrypt_call[3]
    IN  /\ Len(iv) >= 8
        /\ Len(iv) <= 128
        /\ Len(tag) = TAG_LEN
        /\ tag = GcmTag(receiver.security_handler, iv, ciphertext)

\* C3: when the k-th encrypted chunk read by the receiver does not verify,
\* receive_file has reported failure and the output file holds exactly the
\* plaintext of chunks 1..k-1: no byte of chunk k or of a later chunk.
C3_AuthFailureWritesNothing ==
    (receiver.encrypted /\ receiver.security_handler # NoKey
     /\ receiver.decrypt_call # <<>> /\ ~LastFrameVerifies)
    => /\ receiver.pc = "done"
       /\ receiver.result = "empty"
       /\ receiver.file = Take(src.data, (receiver.chunks - 1) * ChunkSize)
       /\ receiver.total_received = Len(receiver.file)

C3_Witness ==
    /\ tampered
    /\ receiver.decrypt_call # <<>>
    /\ receiver.security_handler = sender.security_handler
    /\ receiver.chunks = 2
    /\ ~LastFrameVerifies
    /\ receiver.error = "InvalidTag"
    /\ receiver.result = "empty"
    /\ receiver.file = Take(src.data, ChunkSize)

\* C4: a receiver whose recv has returned b'' (the peer closed the
\* connection before file_size bytes were received) has terminated with
\* failure, in the encrypted and in the unencrypted read path.
C4_ClosedPeerEndsReceive ==
    receiver.packet_len = 0
    => (receiver.pc = "done" /\ receiver.result = "empty")

\* C4, for the exact-length reads (header and encrypted frames) alone
C4_ExactReads ==
    (receiver.packet_len = 0 /\ receiver.pc # "plain")
    => (receiver.pc = "done" /\ receiver.result = "empty"
        /\ receiver.error = "ConnectionError")

\* C5: the number of plaintext bytes written to the output file never
\* exceeds the header's file_size, and equals it when receive_file returns a
\* saved path.
C5_WrittenBoundedBySize ==
    /\ receiver.file_open => Len(receiver.file) <= receiver.file_size
    /\ receiver.result = "path" => Len(receiver.file) = receiver.file_size

\* C6: the header carries the byte length of the UTF-8 file name, and the
\* receiver's four exact-length reads recover the file name, the file size
\* and the encrypted flag that the sender encoded.
C6_HeaderRoundTrip ==
    /\ receiver.pc \in {"filename", "file_size", "encrypted"}
         => receiver.filename_len = Len(EncodeUTF8(SentName))
    /\ receiver.error # "UnicodeDecodeError"
    /\ receiver.file_open
         => /\ receiver.filename_len = Len(EncodeUTF8(SentName))
            /\ receiver.filename = SentName
            /\ receiver.file_size = SentSize
            /\ receiver.encrypted = SentFlag

\* C6, for file names whose UTF-8 encoding has one byte per character
C6_SingleByteNames ==
    Len(EncodeUTF8(SentName)) = Len(SentName) => C6_HeaderRoundTrip

Rank(e) ==
    CASE e.ev = "connect" -> 1
      [] e.ev = "header" -> 2
      [] e.ev = "chunk" -> 3
      [] e.ev = "close" -> 4

Count(log, e) == Cardinality({i \in 1..Len(log) : log[i].ev = e})

\* C7: the socket calls of one send_file are, in order: connect, exactly one
\* header write, the chunk writes in file order, close; a header is written
\* only on an established connection, a chunk only after the header, nothing
\* after close, and a successful send_file made all of them.
C7_SenderEventOrder ==
    LET log == sender.log
    IN  /\ \A i, j \in 1..Len(log) : i < j => Rank(log[i]) <= Rank(log[j])
        /\ Count(log, "connect") <= 1
        /\ Count(log, "header") <= 1
        /\ Count(log, "close") <= 1
        /\ Count(log, "header") = 1 => Count(log, "connect") = 1
        /\ Count(log, "chunk") > 0 => Count(log, "header") = 1
        /\ ChunkOffsets(log)
             = [k \in 1..Count(log, "chunk") |-> (k - 1) * ChunkSize]
        /\ sender.result # "none" <=> Count(log, "close") = 1
        /\ sender.result = "True"
             => /\ Count(log, "connect") = 1
                /\ Count(log, "header") = 1
                /\ Count(log, "chunk") = NumChunks(SentSize)

C7_Witness ==
    /\ sender.result = "True"
    /\ Count(sender.log, "chunk") = 2
    /\ sender.log[Len(sender.log)].ev = "close"

\* C8: send_file returns False when the file does not exist, when the
\* connection is refused and on an I/O fault during the header or chunk
\* writes, and whenever send_file has returned the sender's socket is closed.
C8_SenderFailureAndClose ==
    /\ sender.pc = "done"
         => (sender.sock = "closed" /\ sender.result \in {"True", "False"})
    /\ sender.error # "none" => (sender.pc = "done" /\ sender.result = "False")
    /\ (sender.pc = "done" /\ ~src.exists)
         => (sender.result = "False" /\ sender.error = "FileNotFoundError")
    /\ (sender.pc = "done" /\ src.exists /\ ~sender.connected)
         => (sender.result = "False"
             /\ sender.error = "ConnectionRefusedError")
    /\ sender.result = "True" => sender.total_sent = SentSize

C8_Witness ==
    /\ sender.pc = "done"
    /\ sender.result = "False"
    /\ sender.error = "OSError"
    /\ sender.total_sent > 0
    /\ sender.sock = "closed"

\* C9: whenever receive_file has returned, with a saved path or with
\* failure, the listening socket and the accepted connection socket are
\* closed.
C9_ReceiverSocketsClosed ==
    receiver.result \in {"path", "empty"}
    => (receiver.sock = "closed" /\ receiver.conn = "closed")

C9_Witness ==
    /\ receiver.result = "empty"
    /\ receiver.error = "ConnectionError"
    /\ receiver.sock = "closed"
    /\ receiver.conn = "closed"

\* C10: every operation of the receiver and of the sender ends with an
\* explicit success or failure result; no exception leaves start,
\* accept_connection, receive_file or send_file.
C10_NoRawException ==
    /\ receiver.raised = "none"
    /\ receiver.pc = "done" => receiver.result \in {"path", "empty"}
    /\ sender.pc = "done" => sender.result \in {"True", "False"}

\* C11: a progress callback is invoked after every chunk, with an integer in
\* 0..100 that never decreases and that is 100 at the end of a successful
\* transfer of a non-empty file; this holds on the sender and on the receiver.
C11_ProgressValues ==
    /\ sender.progress \in -1..100
    /\ receiver.progress \in -1..100
    /\ sender.total_sent > 0 =>
          sender.progress = (100 * sender.total_sent) \div Len(src.data)
    /\ receiver.total_received > 0 =>
          receiver.progress =
              Min(100, (100 * receiver.total_received) \div receiver.file_size)
    /\ (sender.result = "True" /\ Len(src.data) > 0) => sender.progress = 100
    /\ (receiver.result = "path" /\ receiver.file_size > 0) =>
          receiver.progress = 100

C11_ProgressSteps ==
    /\ sender'.progress >= sender.progress
    /\ receiver'.progress >= receiver.progress
    /\ sender'.total_sent # sender.total_sent => sender'.progress >= 0
    /\ receiver'.total_received # receiver.total_received =>
          receiver'.progress >= 0

C11_Progress == []C11_ProgressValues /\ [][C11_ProgressSteps]_vars

C11_Witness ==
    /\ sender.result = "True"
    /\ receiver.result = "path"
    /\ sender.progress = 100
    /\ receiver.chunks >= 2
    /\ receiver.progress = 100

\* C12: the output is atomic: after a receive_file that failed, no file
\* with partial content exists at the save path.
C12_AtomicOutput ==
    receiver.result = "empty" => ~(receiver.file_open /\ receiver.file # <<>>)

\* C13: whatever file name the wire header carries, the file that the
\* receiver opens for writing is a direct child of the save directory, and a
\* name with a path separator is rejected.
C13_SavePathInsideSaveDir ==
    receiver.file_open =>
        /\ SubSeq(receiver.file_at, 1, Len(receiver.file_at) - 1)
               = Walk(<<>>, Split(Cwd \o <<SEP>> \o SaveDir))
        /\ \A i \in 1..Len(receiver.filename) : receiver.filename[i] # SEP

\* C14: the constructor accepts a supplied key only if it is exactly 32
\* bytes long, and then stores it unchanged; a supplied key of any other
\* length, 0 included, is rejected.
C14_KeyLength ==
    (sh.pc # "none" /\ sh.given) =>
        IF Len(sh.supplied) = KEY_LEN
        THEN sh.error = "none" /\ sh.key = sh.supplied
        ELSE sh.pc = "raised" /\ sh.error = "ValueError"

\* C14, for the supplied keys that are not empty
C14_NonEmptyKeys == sh.supplied # <<>> => C14_KeyLength

\* C15: unpack_encrypted_chunk gives back the three fields that
\* pack_encrypted_chunk was given, whatever byte strings they are; the packed
\* bytes are the iv, the tag and the ciphertext in this order, each behind its
\* length as 4 big-endian bytes; and they are the bytes of the frame that
\* send_file builds inline from the same triple.
C15_FrameRoundTrip ==
    LET f == sh.frame
        a == 4 + Len(f.iv)
        b == a + 4 + Len(f.tag)
    IN  /\ sh.pc \in {"packed", "unpacked"} =>
              /\ Len(sh.packed) = b + 4 + Len(f.ciphertext)
              /\ SubSeq(sh.packed, 1, 4) = PackBE(Len(f.iv), 4)
              /\ SubSeq(sh.packed, 5, a) = f.iv
              /\ SubSeq(sh.packed, a + 1, a + 4) = PackBE(Len(f.tag), 4)
              /\ SubSeq(sh.packed, a + 5, b) = f.tag
              /\ SubSeq(sh.packed, b + 1, b + 4)
                    = PackBE(Len(f.ciphertext), 4)
              /\ SubSeq(sh.packed, b + 5, Len(sh.packed)) = f.ciphertext
              /\ sh.packed = InlineFrame(f)
        /\ sh.pc = "unpacked" =>
              /\ sh.unpacked.error = "none"
              /\ sh.unpacked.iv = f.iv
              /\ sh.unpacked.ciphertext = f.ciphertext
              /\ sh.unpacked.tag = f.tag

C15_Witness ==
    /\ sh.pc = "unpacked"
    /\ ~sh.sealed
    /\ sh.frame.ciphertext = LongField
    /\ sh.frame.iv # <<>>
    /\ sh.frame.tag = <<>>

\* C16: under every 32-byte key and for every plaintext, encrypt_chunk
\* returns an iv of 12 bytes, a tag of 16 bytes and a ciphertext as long as
\* the plaintext, and decrypt_chunk of that triple under the same key returns
\* the plaintext.
C16_ChunkRoundTrip ==
    /\ sh.sealed =>
          /\ Len(sh.key) = KEY_LEN
          /\ Len(sh.frame.iv) = 12
          /\ Len(sh.frame.tag) = 16
          /\ Len(sh.frame.ciphertext) = Len(sh.plaintext)
    /\ (sh.sealed /\ sh.pc = "decrypted") =>
          /\ sh.decrypted.error = "none"
          /\ sh.decrypted.plaintext = sh.plaintext

C16_Witness ==
    /\ sh.sealed
    /\ sh.pc = "decrypted"
    /\ sh.key = Key2
    /\ Len(sh.plaintext) >= 2
    /\ sh.frame.ciphertext # sh.plaintext

\* C17: the table of devices never has an entry for this host's own
\* address, whatever the lookup of the local address returns.
C17_NoOwnAddress == dd.devices[LocalAddr] = <<>>

\* C18: get_available_devices, called at time t, returns the (address, name)
\* pairs of the records seen within 30 seconds of t: a record of age 29 is
\* returned, a record of age 31 is not, and the records left out are removed
\* from the table.  (A record that a beacon renews after the clock was read
\* is seen later than t.)
C18_ListedDevices ==
    LET t == owner.current_time
        listed == {pair[1] : pair \in owner.result}
        renewed(ip) == dd.devices[ip] # <<>> /\ dd.devices[ip][2] >= t
    IN  owner.pc = "returned" =>
          /\ \A ip \in owner.fresh : <<ip, HostName(ip)>> \in owner.result
          /\ \A ip \in owner.stale :
                /\ ip \in listed => renewed(ip)
                /\ dd.devices[ip] # <<>> => renewed(ip)
          /\ \A ip \in listed :
                /\ dd.devices[ip] # <<>>
                /\ t - dd.devices[ip][2] <= 30
                /\ <<ip, dd.devices[ip][1]>> \in owner.result
          /\ \A ip \in Known(dd.devices) : ip \in listed \/ renewed(ip)

C18_Witness ==
    /\ owner.pc = "returned"
    /\ owner.current_time = 31
    /\ \E old \in PeerAddrs, new \in PeerAddrs :
         /\ owner.stale = {old}
         /\ owner.fresh = {new}
         /\ dd.devices[old] = <<>>
         /\ dd.devices[new] = <<"peer", 29>>
         /\ owner.result = {<<new, "peer">>}

\* C19: no payload of a datagram ends the listener: after a payload that is
\* no well-formed beacon the listener is still in its loop.
C19_MalformedBeaconDiscarded == listener.raised_in # "payload"

\* C20: a socket fault ends the broadcaster or the listener for good, and the
\* owner of the object can see it in the state that the object reports: that
\* state is not the one of an object whose two threads are still running.
C20_FaultObservable ==
    /\ listener.raised_in \in {"socket", "bind"} =>
          listener.pc = "exited" /\ ~dd.running
    /\ broadcaster.raised_in = "socket" =>
          broadcaster.pc = "exited" /\ ~dd.running

\* C21: the accesses to the table of devices exclude one another: while a
\* call of get_available_devices is between its scan and its return, no
\* other thread changes the table.
C21_TableAccessExclusive ==
    [][(owner.pc = "delete" /\ owner' = owner) =>
          dd'.devices = dd.devices]_vars

\* C22: after stop_discovery the broadcaster and the listener both end, and
\* no further datagram is needed for that.
C22_StopEndsThreads ==
    dd.stopped ~> (broadcaster.pc = "exited" /\ listener.pc = "exited")

\* C22, for the broadcaster alone
C22_BroadcasterEnds == dd.stopped ~> broadcaster.pc = "exited"

\* C25: once stop_discovery has returned, the listener does not change the
\* table of devices any more.
C25_NoUpsertAfterStop ==
    [][(dd.stopped /\ listener' # listener) =>
          dd'.devices = dd.devices]_vars

\* C26: pruning removes a record only if, at the moment of the removal, it
\* was last seen more than 30 seconds ago: a record that a beacon renewed
\* between the scan and the deletion stays.
C26_PruneOnlyStale ==
    [][\A ip \in Addrs :
          (dd.devices[ip] # <<>> /\ dd'.devices[ip] = <<>>) =>
              now - dd.devices[ip][2] > 30]_vars

\* C23: _receive_exact(n) returns the next n bytes of the stream, in order,
\* however recv splits them: it returns no fewer and takes no more from the
\* stream; and it raises ConnectionError when the stream ends before it has
\* n bytes.
C23_ReceiveExact ==
    LET stream == src.data
        n == UnpackBE(Take(stream, 4))
        m == UnpackBE(SubSeq(stream, 5 + n, 8 + n))
        r == receiver
    IN  /\ r.pc \in ExactFields =>
              /\ Len(r.data) < r.need
              /\ r.pc = "iv_len" =>
                    r.need = 4 /\ r.data \o wire = stream
              /\ r.pc = "iv" =>
                    r.need = n /\ r.data \o wire = Drop(stream, 4)
              /\ r.pc = "tag_len" =>
                    /\ r.need = 4
                    /\ r.iv = SubSeq(stream, 5, 4 + n)
                    /\ r.data \o wire = Drop(stream, 4 + n)
              /\ r.pc = "tag" =>
                    r.need = m /\ r.data \o wire = Drop(stream, 8 + n)
        /\ r.pc = "done" =>
              /\ r.error = "ConnectionError"
              /\ r.result = "empty"
              /\ wire = <<>>
              /\ Len(r.data) < r.need

C23_Witness ==
    /\ receiver.pc = "done"
    /\ receiver.error = "ConnectionError"
    /\ receiver.iv = <<1, 2>>
    /\ Take(src.data, 4) = <<0, 0, 0, 2>>

\* C24: unpack_encrypted_chunk fails on bytes in which a field is announced
\* longer than the bytes that are left: it never returns a field shorter
\* than its announced length.
C24_ShortFrameRejected ==
    (sh.pc = "unpacked_cut" /\ sh.unpacked.error = "none") =>
        /\ Len(sh.unpacked.iv) = Len(sh.frame.iv)
        /\ Len(sh.unpacked.tag) = Len(sh.frame.tag)
        /\ Len(sh.unpacked.ciphertext) = Len(sh.frame.ciphertext)

\* C24, for the bytes that end before the third length field is complete
C24_HeaderCut ==
    (sh.pc = "unpacked_cut"
     /\ Len(sh.packed) < 12 + Len(sh.frame.iv) + Len(sh.frame.tag)) =>
        sh.unpacked.error = "struct.error"

\* C27: the probe of _send_file_to_receiver does not take the receiver's
\* accepted connection: the connection that a waiting receiver has accepted
\* and reads its header from is the transfer connection of a FileSender.
C27_ProbeLeavesAccept ==
    \A d \in Devices, w \in 1..MaxWaiters :
        cli[d].waiters[w].pc \in {"accepted", "finally"}
            /\ cli[d].waiters[w].conn # "None"
        => cli[d].waiters[w].conn = "transfer"

\* C28: at most one of file_selection_mode, standby_mode and receiver_mode
\* is true on a device, in every state.
ModesOn(c) ==
    {m \in {"file_selection_mode", "standby_mode", "receiver_mode"} : c[m]}

C28_OneMode == \A d \in Devices : Cardinality(ModesOn(cli[d])) <= 1

\* C30: when a thread of _wait_for_sender ends, receiver_mode is false.
C30_EndsWithModeOff ==
    [][\A d \in Devices, w \in 1..MaxWaiters :
         (cli[d].waiters[w].pc \notin Ended
              /\ cli'[d].waiters[w].pc \in {"done", "died"})
         => ~cli'[d].receiver_mode]_vars

\* while a thread of _wait_for_sender is blocked in accept, receiver_mode is
\* true
C30_BlockedWithModeOn ==
    \A d \in Devices, w \in 1..MaxWaiters :
        cli[d].waiters[w].pc = "listening" => cli[d].receiver_mode

\* C29: _send_file_to_receiver ends once it has a target: a thread that is
\* in the loop of send_file attempts leaves it (or its process is gone).
C29_SendEnds ==
    \A d \in Devices, s \in 1..MaxSenders :
        cli[d].senders[s].pc = "attempt"
            ~> (cli[d].senders[s].pc = "done" \/ ~Alive(d))

\* when the thread ends after it had a target, standby_mode and
\* standby_file are cleared
C29_EndClearsStandby ==
    [][\A d \in Devices, s \in 1..MaxSenders :
         (cli[d].senders[s].pc = "finally" /\ cli'[d].senders[s].pc = "done")
         => (~cli'[d].standby_mode /\ cli'[d].standby_file = 0)]_vars

====
